---------------------------- MODULE Spec2Model ----------------------------
(***************************************************************************)
(* Model of pyomo/common/indexing.py: normalize_index and flatten_tuple,   *)
(* with the two module-level type registries native_types and              *)
(* sequence_types.                                                         *)
(*                                                                         *)
(* A Python value is a record [cls, n, chars, items]:                      *)
(*   cls    the value's exact class (x.__class__)                          *)
(*   n      the payload of an int or of an opaque object                   *)
(*   chars  the characters of a str (or of a str subclass)                 *)
(*   items  the elements of a tuple, list or other container               *)
(* The cursor i is 0-based as in the code; x[i] of the code is x[i + 1].   *)
(***************************************************************************)
EXTENDS Integers, Sequences, FiniteSets, TLC

VARIABLES
    native_types,    \* pyomo.common.numeric_types.native_types (shared set)
    sequence_types,  \* indexing.sequence_types (shared set)
    pc,              \* "idle" | "loop" | "ni_done" | "ft_done" | "raised"
    fn,              \* the entry point called: "normalize_index" | "flatten_tuple"
    arg,             \* the argument of the running call
    chained,         \* "fresh", or the entry point whose return value is arg
    x,               \* the working tuple
    x_len,           \* the logical length kept by the code
    i,               \* the cursor
    xi_class,        \* _xi_class of the last iteration
    branch,          \* the branch of the if-chain the last iteration took
    probed,          \* classes for which issubclass(_, Sequence) was evaluated
    result,          \* the value normalize_index returned
    ret_line,        \* the source line of the return statement that ran
    ft_result,       \* the value flatten_tuple returned
    flatten,         \* the function attribute normalize_index.flatten
    \* The locals of normalize_index in each of several threads that call it
    \* at the same time (functions of the thread):
    t_pc,            \* "idle" | "l31" | "l33" | "l42" | "l46" | "l55" | "l58" | "done"
    t_arg,           \* the argument
    t_x,             \* x
    t_len,           \* x_len
    t_i,             \* i
    t_cls,           \* _xi_class
    t_known,         \* _xi_class was in one of the sets when line 44 looked it up
    t_res            \* the value returned

vars == <<native_types, sequence_types, pc, fn, arg, chained, x, x_len, i,
          xi_class, branch, probed, result, ret_line, ft_result, flatten>>

\* The locals of the threads.
tvars == <<t_pc, t_arg, t_x, t_len, t_i, t_cls, t_known, t_res>>

\* What the single caller's call keeps besides the registry.
seqlocals == <<pc, fn, arg, chained, x, x_len, i, xi_class, branch, probed,
               result, ret_line, ft_result, flatten>>

allvars == <<vars, tvars>>

-----------------------------------------------------------------------------
(* Values *)

Val(c, k, s, xs) == [cls |-> c, n |-> k, chars |-> s, items |-> xs]

PyInt(k) == Val("int", k, <<>>, <<>>)
PyStr(s) == Val("str", 0, s, <<>>)
UserStr(s) == Val("UserStr", 0, s, <<>>)
PyObj(k) == Val("object", k, <<>>, <<>>)
Tuple(xs) == Val("tuple", 0, <<>>, xs)
List(xs) == Val("list", 0, <<>>, xs)
UserList(xs) == Val("UserList", 0, <<>>, xs)
NamedTuple(xs) == Val("NamedTuple", 0, <<>>, xs)
\* An instance of a user Sequence class whose __len__ returns k and whose
\* __getitem__ and __iter__ raise.
BrokenSeq(k) == Val("BrokenSeq", k, <<>>, <<>>)
\* An instance of a user subclass of str whose __getitem__ raises.
BrokenStr(s) == Val("BrokenStr", 0, s, <<>>)
\* A frozenset of k elements: it has a length and no positional access, and
\* its class is not a Sequence.
FrozenSet(k) == Val("frozenset", k, <<>>, <<>>)

\* No value yet (a local that is not bound, a call that has not returned).
Unset == Val("unset", 0, <<>>, <<>>)

-----------------------------------------------------------------------------
(* The class hierarchy the code asks about *)

\* issubclass(c, collections.abc.Sequence)
IsSubclassSequence(c) ==
    c \in {"tuple", "list", "str", "UserList", "NamedTuple", "UserStr",
           "BrokenSeq", "BrokenStr"}

\* issubclass(c, str)
IsSubclassStr(c) == c \in {"str", "UserStr", "BrokenStr"}

\* issubclass(c, tuple), which is what isinstance(v, tuple) asks of v.__class__
IsSubclassTuple(c) == c \in {"tuple", "NamedTuple"}

\* tuple(v): the elements of v in order; the characters of a string, each a str
TupleOf(v) ==
    IF IsSubclassStr(v.cls)
    THEN [k \in 1..Len(v.chars) |-> PyStr(<<v.chars[k]>>)]
    ELSE v.items

\* tuple(v) raises: iterating v fails.
TupleRaises(v) == v.cls \in {"BrokenSeq", "BrokenStr"}

\* len(v)
LenOf(v) == IF v.cls \in {"BrokenSeq", "frozenset"} THEN v.n ELSE Len(TupleOf(v))

-----------------------------------------------------------------------------
(* The arguments the callers pass *)

\* Bound: the largest number of nodes (containers and leaves) of a generated
\* argument.
MaxNodes == 3

\* The classes of the generated containers: the two built-in sequence types
\* and a user-defined collections.abc.Sequence.
GenClasses == {"tuple", "list", "UserList"}

\* The generated leaves: a native int, a native str, an instance of a user
\* subclass of str, and an object that is neither native nor a sequence.
GenLeaves == {PyInt(7), PyStr(<<"a", "b">>), UserStr(<<"c">>), PyObj(1)}

RECURSIVE ValsOfSize(_), SeqsOfSize(_)
\* The values with exactly k nodes.
ValsOfSize(k) ==
    (IF k = 1 THEN GenLeaves ELSE {})
    \cup {Val(c, 0, <<>>, s) : c \in GenClasses, s \in SeqsOfSize(k - 1)}
\* The sequences of values with k nodes in all.
SeqsOfSize(k) ==
    IF k = 0 THEN {<<>>}
    ELSE UNION {{<<v>> \o s : v \in ValsOfSize(j), s \in SeqsOfSize(k - j)} :
                j \in 1..k}

\* Arguments of the documented examples and deeper or wider mixes than
\* MaxNodes reaches.
Ex_deep ==
    Tuple(<<PyInt(1),
            Tuple(<<Tuple(<<PyInt(2), PyInt(3)>>), PyInt(4)>>),
            Tuple(<<PyInt(5)>>)>>)
Ex_flat == Tuple(<<PyInt(1), PyInt(2), PyInt(3), PyInt(4), PyInt(5)>>)
Ex_depth == Tuple(<<PyInt(1), Tuple(<<PyInt(2), PyInt(3)>>), PyInt(4)>>)
Ex_str == Tuple(<<PyStr(<<"a", "b">>), PyInt(1)>>)
Ex_pair == Tuple(<<PyInt(1), PyInt(2)>>)
Ex_user ==
    Tuple(<<UserList(<<UserList(<<PyInt(1)>>), PyInt(2)>>),
            UserList(<<PyInt(3)>>)>>)
Ex_userstr ==
    List(<<UserStr(<<"c", "d">>), UserList(<<UserStr(<<"c">>)>>),
           UserStr(<<"c">>)>>)
Ex_obj ==
    Tuple(<<PyObj(1), UserList(<<PyObj(2), Tuple(<<>>)>>), PyObj(1)>>)
Ex_empties == Tuple(<<Tuple(<<>>), List(<<Tuple(<<>>), UserList(<<>>)>>)>>)
Ex_inner == Tuple(<<Tuple(<<Tuple(<<>>), PyInt(1)>>)>>)
Ex_named == NamedTuple(<<PyInt(1), NamedTuple(<<PyInt(2)>>)>>)
Ex_named1 == List(<<NamedTuple(<<PyInt(7)>>)>>)

Examples ==
    {Ex_deep, Ex_flat, Ex_depth, Ex_str, Ex_pair, Ex_user, Ex_userstr, Ex_obj,
     Ex_empties, Ex_inner, Ex_named, Ex_named1, NamedTuple(<<>>)}

Inputs == UNION {ValsOfSize(k) : k \in 1..MaxNodes} \cup Examples

-----------------------------------------------------------------------------
(* normalize_index, statement by statement *)

\* The registry before any call: native_types as imported (atomic types),
\* sequence_types = {tuple, list}.
NativeSeed == {"int", "float", "str"}
SequenceSeed == {"tuple", "list"}

\* Faulty variant of TopLevel: the fast path of lines 31-32 is missing, so a
\* native argument is wrapped and sent through the loop.
TopLevelNoFastPath(c, nat, seq) == IF c \in seq THEN "cast" ELSE "wrap"

\* Lines 31-38: what the entry does with the argument.
\*   "return" (line 32), "cast" (line 36) or "wrap" (line 38)
TopLevel(c, nat, seq) ==
    IF c \in nat THEN "return"
    ELSE IF c \in seq THEN "cast"
    ELSE "wrap"

\* Faulty variant of Classify: the else branch of lines 61-62 registers the
\* class as native before advancing.
ClassifyRegisterFallback(c, nat, seq) ==
    IF c \in nat THEN "native"
    ELSE IF c \in seq THEN "sequence"
    ELSE IF IsSubclassSequence(c) /\ ~IsSubclassStr(c) THEN "learn_sequence"
    ELSE "learn_native"

\* Faulty variant of Classify: the branch of lines 51-60 is missing, so a
\* class in neither set is kept by the else branch.
ClassifyLookupOnly(c, nat, seq) ==
    IF c \in nat THEN "native"
    ELSE IF c \in seq THEN "sequence"
    ELSE "fallback"

\* Faulty variant of Classify: the issubclass(_, str) test of line 52 is
\* missing, so every unclassified Sequence is learned as a sequence type.
ClassifyNoStrTest(c, nat, seq) ==
    IF c \in nat THEN "native"
    ELSE IF c \in seq THEN "sequence"
    ELSE IF IsSubclassSequence(c) THEN "learn_sequence"
    ELSE "fallback"

\* Faulty variant of Classify: the loop consults normalize_index.flatten and,
\* with the flag off, keeps every non-native element whole.
ClassifyHonoursFlag(c, nat, seq) ==
    IF c \in nat THEN "native"
    ELSE IF ~flatten THEN "fallback"
    ELSE IF c \in seq THEN "sequence"
    ELSE IF IsSubclassSequence(c)
         THEN IF IsSubclassStr(c) THEN "learn_native" ELSE "learn_sequence"
    ELSE "fallback"

\* Lines 44-62: the branch of the if-chain taken for an element of class c.
Classify(c, nat, seq) ==
    IF c \in nat THEN "native"
    ELSE IF c \in seq THEN "sequence"
    ELSE IF IsSubclassSequence(c)
         THEN IF IsSubclassStr(c) THEN "learn_native" ELSE "learn_sequence"
    ELSE "fallback"

\* The branches that evaluate issubclass(_xi_class, Sequence) (line 51).
Probing == {"learn_native", "learn_sequence", "fallback"}

\* Faulty variant of Splicing: the learning branch registers the class but
\* lines 59-60 are missing, so the element is spliced only from the next
\* lookup on.
SplicingLookupOnly == {"sequence"}

\* The branches that splice (lines 47-50 and 59-60).
Splicing == {"sequence", "learn_sequence"}

\* Faulty variants of NativeAfter: the set is assigned instead of added to;
\* the add of line 55 is missing.
NativeAfterAssign(b, c, nat) == IF b = "learn_native" THEN {c} ELSE nat
NativeAfterNever(b, c, nat) == nat

\* Faulty variant of NativeAfter: the else branch of lines 61-62 adds the
\* class too.
NativeAfterFallbackToo(b, c, nat) ==
    IF b \in {"learn_native", "fallback"} THEN nat \cup {c} ELSE nat

\* Line 55: native_types.add(_xi_class)
NativeAfter(b, c, nat) == IF b = "learn_native" THEN nat \cup {c} ELSE nat

\* Faulty variants of SequenceAfter: the add runs before the str test, for
\* every unclassified Sequence; the add of line 58 is missing.
SequenceAfterAnyLearn(b, c, seq) ==
    IF b \in {"learn_native", "learn_sequence"} THEN seq \cup {c} ELSE seq
SequenceAfterNever(b, c, seq) == seq

\* Faulty variant of SequenceAfter: the set is rebuilt from the new class
\* instead of added to, so the entries other callers rely on are lost.
SequenceAfterReplace(b, c, seq) == IF b = "learn_sequence" THEN {c} ELSE seq

\* Line 58: sequence_types.add(_xi_class)
SequenceAfter(b, c, seq) == IF b = "learn_sequence" THEN seq \cup {c} ELSE seq

\* Faulty variant of LenAfter: x_len += len(x[i])
LenAfterNoMinusOne(b, k, e) ==
    IF b \in Splicing THEN k + LenOf(e) ELSE k

\* Lines 47 and 59: x_len += len(x[i]) - 1
LenAfter(b, k, e) == IF b \in Splicing THEN k + LenOf(e) - 1 ELSE k

\* Faulty variant of Splice: the elements are appended at the end instead of
\* put in place, x[:i] + x[i + 1:] + tuple(x[i]).
SpliceAtEnd(xs, k) ==
    SubSeq(xs, 1, k) \o SubSeq(xs, k + 2, Len(xs)) \o TupleOf(xs[k + 1])

\* Lines 50 and 60: x[:i] + tuple(x[i]) + x[i + 1:]
Splice(xs, k) ==
    SubSeq(xs, 1, k) \o TupleOf(xs[k + 1]) \o SubSeq(xs, k + 2, Len(xs))

\* The working tuple after the iteration.
TupleAfter(b, xs, k) == IF b \in Splicing THEN Splice(xs, k) ELSE xs

\* Faulty variant of CursorAfter: the i += 1 of lines 45, 56 and 62 is missing.
CursorNeverAdvance(b, k) == k

\* Faulty variant of CursorAfter: the cursor advances after a splice too.
CursorAlwaysAdvance(b, k) == k + 1

\* Lines 45, 56 and 62 advance the cursor; the splicing branches do not.
CursorAfter(b, k) == IF b \in Splicing THEN k ELSE k + 1

\* Faulty variant of Unwrap: the unwrap of lines 64-65 is missing.
UnwrapNever(xs, k) == Tuple(xs)

\* Lines 64-66: the value returned after the loop.
Unwrap(xs, k) == IF k = 1 THEN xs[1] ELSE Tuple(xs)

\* Lines 64-66: the return statement that runs after the loop.
ReturnLine(k) == IF k = 1 THEN 65 ELSE 66

\* Faulty variant of FlattenTupleWrap: the test is isinstance(x, Sequence).
FlattenTupleWrapNonSequence(r) ==
    IF IsSubclassSequence(r.cls) THEN r ELSE Tuple(<<r>>)

\* Lines 84-86 of flatten_tuple.
FlattenTupleWrap(r) == IF IsSubclassTuple(r.cls) THEN r ELSE Tuple(<<r>>)

-----------------------------------------------------------------------------
(* The state machine *)

\* The threads that call normalize_index at the same time.
Threads == {"t1", "t2"}

Init ==
    /\ native_types = NativeSeed
    /\ sequence_types = SequenceSeed
    /\ pc = "idle"
    /\ fn = "none"
    /\ arg = Unset
    /\ chained = "fresh"
    /\ x = <<>>
    /\ x_len = 0
    /\ i = 0
    /\ xi_class = "unset"
    /\ branch = "none"
    /\ probed = {}
    /\ result = Unset
    /\ ret_line = 0
    /\ ft_result = Unset
    /\ flatten = TRUE
    /\ t_pc = [t \in Threads |-> "idle"]
    /\ t_arg = [t \in Threads |-> Unset]
    /\ t_x = [t \in Threads |-> <<>>]
    /\ t_len = [t \in Threads |-> 0]
    /\ t_i = [t \in Threads |-> 0]
    /\ t_cls = [t \in Threads |-> "unset"]
    /\ t_known = [t \in Threads |-> FALSE]
    /\ t_res = [t \in Threads |-> Unset]

\* Lines 16-41 (and line 83 for flatten_tuple): entry f is called with v.
Enter(f, v, from) ==
    LET top == TopLevel(v.cls, native_types, sequence_types) IN
    /\ fn' = f
    /\ arg' = v
    /\ chained' = from
    /\ xi_class' = "unset"
    /\ branch' = "none"
    /\ ft_result' = Unset
    /\ i' = 0
    /\ IF top = "return"
       THEN /\ pc' = "ni_done"
            /\ result' = v
            /\ ret_line' = 32
            /\ x' = <<>>
            /\ x_len' = 0
       ELSE IF top = "cast" /\ TupleRaises(v)
       THEN \* line 36 raises; the exception leaves the call
            /\ pc' = "raised"
            /\ result' = Unset
            /\ ret_line' = 0
            /\ x' = <<>>
            /\ x_len' = 0
       ELSE /\ pc' = "loop"
            /\ result' = Unset
            /\ ret_line' = 0
            /\ x' = IF top = "cast" THEN TupleOf(v) ELSE <<v>>
            /\ x_len' = Len(x')
    /\ UNCHANGED <<native_types, sequence_types, probed, flatten>>
    /\ UNCHANGED tvars

\* The value the finished call returned to its caller.
Returned == IF fn = "flatten_tuple" THEN ft_result ELSE result

\* The call has returned to its caller.
Done ==
    \/ pc = "ni_done" /\ fn = "normalize_index"
    \/ pc = "ft_done"

EntryPoints == {"normalize_index", "flatten_tuple"}

\* A caller calls one of the entry points with some argument.
Call ==
    /\ pc = "idle"
    /\ \E f \in EntryPoints, v \in Inputs : Enter(f, v, "fresh")

\* A caller passes the value just returned to one of the entry points.
CallOnResult ==
    /\ Done
    /\ \E f \in EntryPoints : Enter(f, Returned, fn)

\* Lines 42-62: one iteration of the while loop.
LoopStep ==
    /\ pc = "loop"
    /\ i < x_len
    /\ LET c == x[i + 1].cls
           b == Classify(c, native_types, sequence_types)
           \* line 50 or 60 raises, after lines 58 and 47 or 59 have run
           raises == b \in Splicing /\ TupleRaises(x[i + 1])
       IN /\ xi_class' = c
          /\ branch' = b
          /\ probed' = IF b \in Probing THEN probed \cup {c} ELSE probed
          /\ native_types' = NativeAfter(b, c, native_types)
          /\ sequence_types' = SequenceAfter(b, c, sequence_types)
          /\ x_len' = LenAfter(b, x_len, x[i + 1])
          /\ x' = IF raises THEN x ELSE TupleAfter(b, x, i)
          /\ i' = CursorAfter(b, i)
          /\ pc' = IF raises THEN "raised" ELSE pc
    /\ UNCHANGED <<fn, arg, chained, result, ret_line, ft_result, flatten>>
    /\ UNCHANGED tvars

\* Lines 42 and 64-66: the loop condition fails and normalize_index returns.
LoopExit ==
    /\ pc = "loop"
    /\ ~(i < x_len)
    /\ result' = Unwrap(x, x_len)
    /\ ret_line' = ReturnLine(x_len)
    /\ pc' = "ni_done"
    /\ UNCHANGED <<native_types, sequence_types, fn, arg, chained, x, x_len, i,
                   xi_class, branch, probed, ft_result, flatten>>
    /\ UNCHANGED tvars

\* Lines 84-86: flatten_tuple returns.
FlattenTupleReturn ==
    /\ pc = "ni_done"
    /\ fn = "flatten_tuple"
    /\ ft_result' = FlattenTupleWrap(result)
    /\ pc' = "ft_done"
    /\ UNCHANGED <<native_types, sequence_types, fn, arg, chained, x, x_len, i,
                   xi_class, branch, probed, result, ret_line, flatten>>
    /\ UNCHANGED tvars

\* The caller drops the returned value, or has caught the exception; the
\* locals of the call are gone.
Forget ==
    /\ (Done \/ pc = "raised")
    /\ pc' = "idle"
    /\ fn' = "none"
    /\ arg' = Unset
    /\ chained' = "fresh"
    /\ x' = <<>>
    /\ x_len' = 0
    /\ i' = 0
    /\ xi_class' = "unset"
    /\ branch' = "none"
    /\ result' = Unset
    /\ ret_line' = 0
    /\ ft_result' = Unset
    /\ UNCHANGED <<native_types, sequence_types, probed, flatten>>
    /\ UNCHANGED tvars

\* Line 69 and the callers: between calls, calling code assigns the
\* attribute normalize_index.flatten.
SetFlatten ==
    /\ pc = "idle"
    /\ flatten' = ~flatten
    /\ UNCHANGED <<native_types, sequence_types, pc, fn, arg, chained, x, x_len,
                   i, xi_class, branch, probed, result, ret_line, ft_result>>
    /\ UNCHANGED tvars

Next ==
    \/ Call
    \/ CallOnResult
    \/ LoopStep
    \/ LoopExit
    \/ FlattenTupleReturn
    \/ Forget

Spec == Init /\ [][Next]_vars

\* Arguments with elements that implement the sequence protocol in part,
\* beside well-formed ones.
MalformedInputs ==
    {BrokenSeq(2), BrokenSeq(0), BrokenStr(<<"a">>), FrozenSet(2),
     Tuple(<<PyInt(1), BrokenSeq(2)>>),
     Tuple(<<PyInt(1), BrokenSeq(1), PyInt(2)>>),
     List(<<UserList(<<BrokenSeq(0)>>), PyInt(1)>>),
     Tuple(<<BrokenStr(<<"a", "b">>), PyInt(1)>>),
     Tuple(<<FrozenSet(2), Tuple(<<FrozenSet(0)>>)>>),
     UserList(<<FrozenSet(1), BrokenStr(<<"a">>), BrokenSeq(2)>>),
     Tuple(<<UserStr(<<"c">>), BrokenStr(<<"a">>)>>),
     Ex_pair, Ex_user, Ex_str, PyInt(7), Tuple(<<>>)}

\* A caller calls one of the entry points with such an argument.
CallMalformed ==
    /\ pc = "idle"
    /\ \E f \in EntryPoints, v \in MalformedInputs : Enter(f, v, "fresh")

NextMalformed ==
    \/ CallMalformed
    \/ CallOnResult
    \/ LoopStep
    \/ LoopExit
    \/ FlattenTupleReturn
    \/ Forget

SpecMalformed == Init /\ [][NextMalformed]_vars

\* The calls together with the callers' assignments of normalize_index.flatten.
NextFlag ==
    \/ SetFlatten
    \/ Next

SpecFlag == Init /\ [][NextFlag]_vars

\* A running call keeps running: the loop takes its next iteration, and
\* returns when its condition fails.
SpecFair == Spec /\ WF_vars(LoopStep) /\ WF_vars(LoopExit)

-----------------------------------------------------------------------------
(* normalize_index called from several threads.  The registry sets are     *)
(* shared; a membership test and an add are each atomic (the interpreter   *)
(* runs a set operation to its end), and nothing orders one thread's       *)
(* operations against another's beyond that.  A step is one operation on a *)
(* shared set together with the thread-local statements that follow it.    *)

\* The classes the threads register while they run.
ConcClasses == {"UserStr", "UserList", "NamedTuple"}

\* The arguments the threads pass.
ConcInputs ==
    {PyInt(7), UserStr(<<"c">>), UserList(<<PyInt(7)>>),
     Tuple(<<UserStr(<<"c">>), UserList(<<UserStr(<<"c">>)>>)>>),
     Tuple(<<PyObj(1), UserList(<<>>)>>),
     List(<<NamedTuple(<<PyInt(7)>>), UserList(<<PyInt(7)>>)>>)}

\* Thread t calls normalize_index(v).
T_Call(t) ==
    /\ t_pc[t] = "idle"
    /\ \E v \in ConcInputs :
          /\ t_arg' = [t_arg EXCEPT ![t] = v]
          /\ t_pc' = [t_pc EXCEPT ![t] = "l31"]
    /\ UNCHANGED <<native_types, sequence_types, seqlocals,
                   t_x, t_len, t_i, t_cls, t_known, t_res>>

\* Lines 31-32: x.__class__ in native_types
T_L31(t) ==
    /\ t_pc[t] = "l31"
    /\ IF t_arg[t].cls \in native_types
       THEN /\ t_res' = [t_res EXCEPT ![t] = t_arg[t]]
            /\ t_pc' = [t_pc EXCEPT ![t] = "done"]
       ELSE /\ t_pc' = [t_pc EXCEPT ![t] = "l33"]
            /\ UNCHANGED t_res
    /\ UNCHANGED <<native_types, sequence_types, seqlocals,
                   t_arg, t_x, t_len, t_i, t_cls, t_known>>

\* Lines 33-41: x.__class__ in sequence_types, then the cast or the wrap
T_L33(t) ==
    /\ t_pc[t] = "l33"
    /\ LET xs == IF t_arg[t].cls \in sequence_types
                 THEN TupleOf(t_arg[t]) ELSE <<t_arg[t]>>
       IN /\ t_x' = [t_x EXCEPT ![t] = xs]
          /\ t_len' = [t_len EXCEPT ![t] = Len(xs)]
    /\ t_i' = [t_i EXCEPT ![t] = 0]
    /\ t_pc' = [t_pc EXCEPT ![t] = "l42"]
    /\ UNCHANGED <<native_types, sequence_types, seqlocals,
                   t_arg, t_cls, t_known, t_res>>

\* Lines 42-45: the loop condition holds; _xi_class in native_types
T_L44(t) ==
    /\ t_pc[t] = "l42"
    /\ t_i[t] < t_len[t]
    /\ LET c == t_x[t][t_i[t] + 1].cls
       IN /\ t_cls' = [t_cls EXCEPT ![t] = c]
          /\ t_known' = [t_known EXCEPT
                           ![t] = c \in native_types \cup sequence_types]
          /\ IF c \in native_types
             THEN /\ t_i' = [t_i EXCEPT ![t] = CursorAfter("native", @)]
                  /\ UNCHANGED t_pc
             ELSE /\ t_pc' = [t_pc EXCEPT ![t] = "l46"]
                  /\ UNCHANGED t_i
    /\ UNCHANGED <<native_types, sequence_types, seqlocals,
                   t_arg, t_x, t_len, t_res>>

\* Lines 46-52 and 61-62: _xi_class in sequence_types; when it is not, the
\* issubclass tests, which read no shared state
T_L46(t) ==
    /\ t_pc[t] = "l46"
    /\ LET c == t_cls[t]
           k == t_i[t]
       IN IF c \in sequence_types
          THEN /\ t_len' = [t_len EXCEPT
                              ![t] = LenAfter("sequence", @, t_x[t][k + 1])]
               /\ t_x' = [t_x EXCEPT ![t] = TupleAfter("sequence", @, k)]
               /\ t_pc' = [t_pc EXCEPT ![t] = "l42"]
               /\ UNCHANGED t_i
          ELSE IF IsSubclassSequence(c)
          THEN /\ t_pc' = [t_pc EXCEPT
                             ![t] = IF IsSubclassStr(c) THEN "l55" ELSE "l58"]
               /\ UNCHANGED <<t_len, t_x, t_i>>
          ELSE /\ t_i' = [t_i EXCEPT ![t] = CursorAfter("fallback", @)]
               /\ t_pc' = [t_pc EXCEPT ![t] = "l42"]
               /\ UNCHANGED <<t_len, t_x>>
    /\ UNCHANGED <<native_types, sequence_types, seqlocals,
                   t_arg, t_cls, t_known, t_res>>

\* Lines 55-56: native_types.add(_xi_class); i += 1
T_L55(t) ==
    /\ t_pc[t] = "l55"
    /\ native_types' = NativeAfter("learn_native", t_cls[t], native_types)
    /\ t_i' = [t_i EXCEPT ![t] = CursorAfter("learn_native", @)]
    /\ t_pc' = [t_pc EXCEPT ![t] = "l42"]
    /\ UNCHANGED <<sequence_types, seqlocals,
                   t_arg, t_x, t_len, t_cls, t_known, t_res>>

\* Lines 58-60: sequence_types.add(_xi_class); the splice
T_L58(t) ==
    /\ t_pc[t] = "l58"
    /\ sequence_types' =
          SequenceAfter("learn_sequence", t_cls[t], sequence_types)
    /\ t_len' = [t_len EXCEPT
                   ![t] = LenAfter("learn_sequence", @, t_x[t][t_i[t] + 1])]
    /\ t_x' = [t_x EXCEPT ![t] = TupleAfter("learn_sequence", @, t_i[t])]
    /\ t_pc' = [t_pc EXCEPT ![t] = "l42"]
    /\ UNCHANGED <<native_types, seqlocals, t_arg, t_i, t_cls, t_known, t_res>>

\* Lines 42 and 64-66: the loop condition fails; the call returns
T_Return(t) ==
    /\ t_pc[t] = "l42"
    /\ ~(t_i[t] < t_len[t])
    /\ t_res' = [t_res EXCEPT ![t] = Unwrap(t_x[t], t_len[t])]
    /\ t_pc' = [t_pc EXCEPT ![t] = "done"]
    /\ UNCHANGED <<native_types, sequence_types, seqlocals,
                   t_arg, t_x, t_len, t_i, t_cls, t_known>>

\* The caller in thread t drops the returned value.
T_Forget(t) ==
    /\ t_pc[t] = "done"
    /\ t_pc' = [t_pc EXCEPT ![t] = "idle"]
    /\ t_arg' = [t_arg EXCEPT ![t] = Unset]
    /\ t_x' = [t_x EXCEPT ![t] = <<>>]
    /\ t_len' = [t_len EXCEPT ![t] = 0]
    /\ t_i' = [t_i EXCEPT ![t] = 0]
    /\ t_cls' = [t_cls EXCEPT ![t] = "unset"]
    /\ t_known' = [t_known EXCEPT ![t] = FALSE]
    /\ t_res' = [t_res EXCEPT ![t] = Unset]
    /\ UNCHANGED <<native_types, sequence_types, seqlocals>>

NextConc ==
    \E t \in Threads :
        \/ T_Call(t)
        \/ T_L31(t)
        \/ T_L33(t)
        \/ T_L44(t)
        \/ T_L46(t)
        \/ T_L55(t)
        \/ T_L58(t)
        \/ T_Return(t)
        \/ T_Forget(t)

SpecConc == Init /\ [][NextConc]_allvars

-----------------------------------------------------------------------------
(* Reference definitions used by the properties *)

\* A nested sequence in the sense of the specification: a structural
\* sequence that is not string-like.
IsNested(v) == IsSubclassSequence(v.cls) /\ ~IsSubclassStr(v.cls)

RECURSIVE DFSLeaves(_), DFSLeavesOfSeq(_)
\* The non-sequence leaves of v in depth-first, left-to-right order.
DFSLeaves(v) == IF IsNested(v) THEN DFSLeavesOfSeq(v.items) ELSE <<v>>
DFSLeavesOfSeq(xs) ==
    IF xs = <<>> THEN <<>>
    ELSE DFSLeaves(Head(xs)) \o DFSLeavesOfSeq(Tail(xs))

\* normalize_index has returned (to its caller or into flatten_tuple).
NormalizeReturned == pc \in {"ni_done", "ft_done"}

\* The loop is about to run an iteration.
AtIteration == pc = "loop" /\ i < x_len

\* This step enters a call (Call or CallOnResult).
Entering == (pc = "idle" \/ Done) /\ pc' \in {"loop", "ni_done", "raised"}

-----------------------------------------------------------------------------
(* C1: idempotence.  When normalize_index is called on a value that        *)
(* normalize_index itself returned, in whatever registry state the earlier *)
(* calls left, it returns that value again:                                *)
(* normalize_index(normalize_index(x)) == normalize_index(x).              *)
C1_Idempotent ==
    (pc = "ni_done" /\ fn = "normalize_index" /\ chained = "normalize_index")
        => result = arg

\* A flattened tuple of several elements went through the loop a second
\* time, after a user sequence type was learned.
C1_Witness ==
    /\ pc = "ni_done" /\ fn = "normalize_index"
    /\ chained = "normalize_index"
    /\ ret_line = 66 /\ Len(x) >= 2
    /\ "UserList" \in sequence_types

(* C2: flattening is depth-first, left-to-right.  For an argument that is  *)
(* a nested sequence, the working tuple at the end of the loop (before the *)
(* single-element unwrap) is exactly the sequence of the argument's        *)
(* non-sequence leaves in depth-first left-to-right order, and             *)
(* normalize((1, ((2, 3), 4), (5,))) == (1, 2, 3, 4, 5).                   *)
C2_DepthFirst ==
    (NormalizeReturned /\ IsNested(arg))
        => /\ ret_line \in {65, 66}
           /\ x = DFSLeaves(arg)
           /\ (arg = Ex_deep => result = Ex_flat)
           /\ (arg = Ex_depth
                 => result = Tuple(<<PyInt(1), PyInt(2), PyInt(3), PyInt(4)>>))

C2_Witness == pc = "ni_done" /\ arg = Ex_deep /\ result = Ex_flat

(* C3: result policy.  After the loop, a working tuple of exactly one      *)
(* element is returned as that bare element, one of zero elements as the   *)
(* empty tuple, any other as the full tuple; normalize((7,)),              *)
(* normalize([7]) and normalize(7) are 7, and sequences holding only empty *)
(* sequences give ().                                                      *)
C3_ResultPolicy ==
    NormalizeReturned
        => /\ ret_line \in {65, 66}
                => /\ Len(x) = 1 => result = x[1]
                   /\ Len(x) = 0 => result = Tuple(<<>>)
                   /\ Len(x) > 1 => result = Tuple(x)
           /\ arg \in {Tuple(<<PyInt(7)>>), List(<<PyInt(7)>>), PyInt(7)}
                => result = PyInt(7)
           /\ arg \in {Tuple(<<>>), List(<<>>), Ex_empties}
                => result = Tuple(<<>>)

C3_Witness ==
    /\ pc = "ni_done" /\ arg = List(<<PyInt(7)>>)
    /\ Len(x) = 1 /\ ret_line = 65 /\ result = PyInt(7)

(* C4: identity on atomics.  A call whose argument's class is in           *)
(* native_types when the call is made returns the argument itself by the   *)
(* return statement of line 32: nothing is wrapped and no iteration of the *)
(* loop runs.                                                              *)
C4_NativeIdentity ==
    [][(Entering /\ arg'.cls \in native_types)
          => /\ pc' = "ni_done"
             /\ result' = arg'
             /\ ret_line' = 32
             /\ x' = <<>>
             /\ branch' = "none"]_vars

\* The fast path on a type that was learned native by an earlier call.
C4_Witness ==
    /\ pc = "ni_done" /\ ret_line = 32
    /\ arg = UserStr(<<"c">>) /\ result = arg

(* C5: string exception.  An iteration whose element is string-like (its   *)
(* class is str or a subclass of str) keeps the element whole: the working *)
(* tuple and its length are unchanged and the cursor advances by one; the  *)
(* element's class is in native_types afterwards and sequence_types is     *)
(* unchanged, and no string class is ever in sequence_types.               *)
C5_StringException ==
    /\ [](\A c \in sequence_types : ~IsSubclassStr(c))
    /\ [][(AtIteration /\ IsSubclassStr(x[i + 1].cls))
             => /\ x' = x
                /\ x_len' = x_len
                /\ i' = i + 1
                /\ native_types' = native_types \cup {x[i + 1].cls}
                /\ sequence_types' = sequence_types]_vars

\* A str subclass was met unclassified, registered native and kept whole.
C5_Witness ==
    /\ pc = "loop" /\ branch = "learn_native" /\ xi_class = "UserStr"
    /\ "UserStr" \in native_types
    /\ i >= 1 /\ x[i] = UserStr(<<"c", "d">>)

(* C6: flatten_tuple always returns a tuple.  When normalize_index         *)
(* returned a tuple, flatten_tuple returns that tuple unchanged; when it   *)
(* returned a bare scalar, flatten_tuple returns the 1-tuple holding it:   *)
(* as_tuple(7) == (7,), as_tuple((1, 2)) == (1, 2), as_tuple(()) == ().    *)
C6_AlwaysTuple ==
    pc = "ft_done"
        => /\ ft_result.cls = "tuple"
           /\ result.cls = "tuple" => ft_result = result
           /\ result.cls # "tuple" => ft_result = Tuple(<<result>>)
           /\ arg = PyInt(7) => ft_result = Tuple(<<PyInt(7)>>)
           /\ arg = Ex_pair => ft_result = Ex_pair
           /\ arg = Tuple(<<>>) => ft_result = Tuple(<<>>)

\* A bare str came back from normalize_index and was wrapped.
C6_Witness ==
    /\ pc = "ft_done" /\ result = PyStr(<<"a", "b">>)
    /\ ft_result = Tuple(<<PyStr(<<"a", "b">>)>>)

(* C7: registry disjointness.  In every state reachable from the initial   *)
(* registry by calls of normalize_index and flatten_tuple, no class is in  *)
(* both native_types and sequence_types.                                   *)
C7_Disjoint == native_types \cap sequence_types = {}

\* Both sets have learned every user type the callers pass.
C7_Witness ==
    /\ "UserStr" \in native_types
    /\ {"UserList", "NamedTuple"} \subseteq sequence_types

(* C8: the registry is append-only.  Every step leaves native_types and    *)
(* sequence_types each a superset of its previous value.                   *)
C8_AppendOnly ==
    [][/\ native_types \subseteq native_types'
       /\ sequence_types \subseteq sequence_types']_vars

\* Both sets have grown and a later call is running on them.
C8_Witness ==
    /\ Cardinality(native_types) > Cardinality(NativeSeed)
    /\ Cardinality(sequence_types) > Cardinality(SequenceSeed)
    /\ pc = "loop" /\ branch # "none"

(* C9: new-type learning is immediate and permanent.  An iteration that    *)
(* meets an element of an unclassified, non-string Sequence class T adds T *)
(* to sequence_types and splices the element in place in the same step,    *)
(* without advancing; T then stays in sequence_types, and every iteration  *)
(* that meets an element of a class in sequence_types, in this call or a   *)
(* later one, takes the registry-lookup branch and splices the same way.   *)
C9_LearnImmediate ==
    /\ [][sequence_types \subseteq sequence_types']_vars
    /\ [][AtIteration
             => LET e == x[i + 1]
                    spliced == SubSeq(x, 1, i) \o e.items
                                 \o SubSeq(x, i + 2, Len(x))
                IN /\ (/\ e.cls \notin native_types \cup sequence_types
                       /\ IsNested(e))
                         => /\ branch' = "learn_sequence"
                            /\ e.cls \in sequence_types'
                            /\ x' = spliced /\ i' = i
                   /\ (e.cls \in sequence_types \/ (IsNested(e) /\ e.cls \in probed))
                         => /\ branch' = "sequence"
                            /\ x' = spliced /\ i' = i]_vars

\* An argument of a learned user type is cast at entry (line 36), which
\* needs its class in sequence_types before the call, and its first element,
\* of that class too, is spliced by registry lookup.
C9_Witness ==
    /\ pc = "loop" /\ arg = UserList(<<UserList(<<PyInt(7)>>)>>)
    /\ branch = "sequence" /\ xi_class = "UserList"
    /\ x = <<PyInt(7)>> /\ i = 0
    /\ probed = {"UserList"}

(* C10 as stated: classification is a one-time decision for every type.    *)
(* Once the structural check (issubclass(_, Sequence)) has been evaluated  *)
(* for a class, no later iteration evaluates it for that class again.      *)
C10_OneTimeEveryType ==
    [][(AtIteration /\ x[i + 1].cls \in probed)
          => branch' \notin Probing]_vars

(* C10 as amended: classification is a one-time decision for every         *)
(* structural sequence type (string-like or not): once the structural      *)
(* check has been evaluated for such a class, every later element of that  *)
(* class is classified by registry lookup alone.  A class that is neither  *)
(* registered nor a Sequence is never registered: each of its elements     *)
(* takes the fallback branch, which evaluates the structural check again   *)
(* and leaves both sets unchanged.                                         *)
C10_OneTimeSequenceTypes ==
    [][AtIteration
          => LET c == x[i + 1].cls
             IN /\ (c \in probed /\ IsSubclassSequence(c))
                      => branch' \in {"native", "sequence"}
                /\ (c \notin native_types \cup sequence_types
                      /\ ~IsSubclassSequence(c))
                      => /\ branch' = "fallback"
                         /\ c \in probed'
                         /\ native_types' = native_types
                         /\ sequence_types' = sequence_types]_vars

\* A learned str subclass is met again and found native by lookup, and an
\* opaque class checked before is still in neither set.
C10_Witness ==
    /\ pc = "loop" /\ branch = "native" /\ xi_class = "UserStr"
    /\ {"UserStr", "object"} \subseteq probed
    /\ "object" \notin native_types \cup sequence_types

-----------------------------------------------------------------------------
(* Reference definitions for the loop's progress *)

RECURSIVE NodeCount(_), NodeCountOfSeq(_)
\* The number of nodes of v: v itself and, for a nested sequence, the nodes
\* of its elements.
NodeCount(v) == IF IsNested(v) THEN 1 + NodeCountOfSeq(v.items) ELSE 1
NodeCountOfSeq(xs) ==
    IF xs = <<>> THEN 0 ELSE NodeCount(Head(xs)) + NodeCountOfSeq(Tail(xs))

\* The nodes at and after the cursor: what the loop still has to resolve.
Remaining == NodeCountOfSeq(SubSeq(x, i + 1, Len(x)))

(* C11: termination.  A call that has entered the loop eventually leaves   *)
(* it and normalize_index returns (the running call is scheduled fairly);  *)
(* every iteration strictly decreases the number of nodes at and after the *)
(* cursor, so a position is spliced at most as often as the argument's     *)
(* finite nesting allows.                                                  *)
C11_Terminates ==
    /\ (pc = "loop") ~> (pc = "ni_done")
    /\ [][(pc = "loop" /\ pc' = "loop")
             => (Remaining' < Remaining /\ Remaining' >= 0)]_vars

\* The loop ran over a nested argument of user sequences and returned.
C11_Witness ==
    /\ pc = "ni_done" /\ arg = Ex_user
    /\ i = 3 /\ x_len = 3 /\ branch = "native"

-----------------------------------------------------------------------------
(* C13 as stated: while normalize_index.flatten is False, flattening is    *)
(* turned off, so no iteration of normalize_index splices a nested         *)
(* sequence.                                                               *)
C13_FlagTurnsOffFlattening == ~flatten => branch \notin Splicing

(* C13 as amended: normalize_index.flatten is True by default, and         *)
(* normalize_index never reads it: while the flag is False a call flattens *)
(* a nested argument exactly as it does while the flag is True, down to    *)
(* the argument's depth-first leaves.  The flag is left for calling code   *)
(* to consult.                                                             *)
C13_FlagNotConsulted ==
    /\ flatten = TRUE
    /\ [](NormalizeReturned /\ IsNested(arg)
            => /\ x = DFSLeaves(arg)
               /\ result = Unwrap(DFSLeaves(arg), Len(DFSLeaves(arg))))

\* With the flag off, the documented example is flattened all the same.
C13_Witness ==
    /\ ~flatten /\ pc = "ni_done" /\ arg = Ex_depth
    /\ result = Tuple(<<PyInt(1), PyInt(2), PyInt(3), PyInt(4)>>)

-----------------------------------------------------------------------------
(* C15: splice without advance.  While a call is in or past the loop, the  *)
(* logical length x_len equals the length of the working tuple and every   *)
(* element below the cursor is a non-sequence; an iteration whose element  *)
(* is a sequence replaces it in place by its own elements in order, grows  *)
(* x_len by len(element) - 1 and leaves i unchanged; i never decreases     *)
(* during the loop.                                                        *)
C15_SpliceNoAdvance ==
    /\ []((pc = "loop" \/ (NormalizeReturned /\ ret_line # 32))
            => /\ x_len = Len(x)
               /\ i <= Len(x)
               /\ \A k \in 1..i : ~IsNested(x[k]))
    /\ [][(pc = "loop" /\ pc' = "loop") => i' >= i]_vars
    /\ [][(AtIteration /\ IsNested(x[i + 1]))
             => LET e == x[i + 1]
                IN /\ x' = SubSeq(x, 1, i) \o e.items \o SubSeq(x, i + 2, Len(x))
                   /\ x_len' = x_len + Len(e.items) - 1
                   /\ i' = i]_vars

\* The inner ((2, 3), 4) of the documented example was spliced at position 1.
C15_Witness ==
    /\ pc = "loop" /\ arg = Ex_deep /\ i = 1 /\ x_len = 4
    /\ branch = "sequence"
    /\ x[2] = Tuple(<<PyInt(2), PyInt(3)>>)

\* The class is in neither registry set and is not a structural sequence.
IsOpaque(c) ==
    c \notin native_types \cup sequence_types /\ ~IsSubclassSequence(c)

(* C16: conservative fallback.  An iteration whose element's class is in   *)
(* neither set and is not a Sequence keeps the element as one element: the *)
(* working tuple, its length and both sets are unchanged and the cursor    *)
(* advances by one.  A top-level argument of such a class is wrapped as    *)
(* (value,) and returned as the bare value by line 65.                     *)
C16_Fallback ==
    /\ [][(AtIteration /\ IsOpaque(x[i + 1].cls))
             => /\ x' = x /\ x_len' = x_len /\ i' = i + 1
                /\ native_types' = native_types
                /\ sequence_types' = sequence_types]_vars
    /\ [][(Entering /\ IsOpaque(arg'.cls))
             => (pc' = "loop" /\ x' = <<arg'>> /\ x_len' = 1)]_vars
    /\ []((NormalizeReturned /\ IsOpaque(arg.cls))
            => (result = arg /\ ret_line = 65 /\ x = <<arg>>))

C16_Witness ==
    /\ pc = "ni_done" /\ arg = PyObj(1) /\ result = PyObj(1)
    /\ branch = "fallback" /\ ret_line = 65

\* The canonical key of v, from v alone: its depth-first leaves, unwrapped
\* when there is exactly one.
CanonicalOf(v) ==
    LET ls == DFSLeaves(v) IN IF Len(ls) = 1 THEN ls[1] ELSE Tuple(ls)

(* C17: determinism with respect to the cache.  Whatever the registry held *)
(* when the call was made, the value normalize_index returns is the same   *)
(* function of the argument alone, so the same call made from any two      *)
(* reachable registry states returns equal results.                        *)
C17_Deterministic == NormalizeReturned => result = CanonicalOf(arg)

\* An empty instance of a user sequence type whose class was learned by an
\* earlier call: it is cast at entry and no iteration runs (the same argument
\* in the initial registry is wrapped, learned and spliced).
C17_Witness ==
    /\ pc = "ni_done" /\ arg = UserList(<<>>)
    /\ branch = "none" /\ ret_line = 66
    /\ "UserList" \in sequence_types
    /\ result = Tuple(<<>>)

RECURSIVE NodesOf(_)
\* v and every value nested in it.
NodesOf(v) ==
    {v} \cup (IF IsNested(v)
              THEN UNION {NodesOf(v.items[k]) : k \in 1..Len(v.items)}
              ELSE {})

(* C18: frame of a call.  A step changes native_types only by adding the   *)
(* class of the element at the cursor, when that class is in neither set   *)
(* and is a string-like Sequence; it changes sequence_types only by adding *)
(* that class when it is in neither set and is a Sequence that is not      *)
(* string-like; the element at the cursor is always a value of the         *)
(* argument; and no step of a call changes normalize_index.flatten.        *)
C18_Frame ==
    /\ [](pc = "loop" => \A k \in 1..Len(x) : x[k] \in NodesOf(arg))
    /\ [][/\ native_types' # native_types
             => /\ AtIteration
                /\ LET c == x[i + 1].cls
                   IN /\ c \notin native_types \cup sequence_types
                      /\ IsSubclassSequence(c) /\ IsSubclassStr(c)
                      /\ native_types' = native_types \cup {c}
          /\ sequence_types' # sequence_types
             => /\ AtIteration
                /\ LET c == x[i + 1].cls
                   IN /\ c \notin native_types \cup sequence_types
                      /\ IsSubclassSequence(c) /\ ~IsSubclassStr(c)
                      /\ sequence_types' = sequence_types \cup {c}
          /\ (pc # "idle" \/ pc' # "idle") => flatten' = flatten]_vars

\* With the flag off and a user sequence type learned, a call learns a str
\* subclass.
C18_Witness ==
    /\ ~flatten /\ pc = "loop" /\ branch = "learn_native"
    /\ xi_class = "UserStr" /\ "UserList" \in sequence_types
    /\ arg = Ex_userstr

-----------------------------------------------------------------------------
\* The value reports a length and fails on positional access or iteration.
IsPartial(v) == v.cls \in {"BrokenSeq", "BrokenStr", "frozenset"}

(* C14 as stated: when an element implements the sequence protocol only in *)
(* part (it reports a length, positional access fails), normalize_index    *)
(* never returns a result in which that element was kept as a scalar.      *)
C14_PartialNeverKept ==
    NormalizeReturned => \A k \in 1..Len(x) : ~IsPartial(x[k])

(* C14 as amended: when the loop reaches an element whose class is a       *)
(* Sequence subclass that is not string-like and whose iteration raises,   *)
(* the call ends with that exception and returns nothing (its class is in  *)
(* sequence_types by then), and so does a call whose argument is such a    *)
(* value of a registered class; no call returns for an argument holding    *)
(* such an element.  An element that reports a length but whose class is   *)
(* string-like or is not a Sequence is kept whole as one element, and the  *)
(* call goes on.                                                           *)
C14_BrokenSequenceRaises ==
    /\ [][(AtIteration /\ x[i + 1].cls = "BrokenSeq")
             => /\ pc' = "raised"
                /\ result' = Unset /\ ft_result' = Unset
                /\ "BrokenSeq" \in sequence_types']_vars
    /\ [][(Entering /\ arg'.cls = "BrokenSeq" /\ "BrokenSeq" \in sequence_types)
             => (pc' = "raised" /\ result' = Unset)]_vars
    /\ [](pc = "raised" => (result = Unset /\ ft_result = Unset))
    /\ [](NormalizeReturned => \A v \in NodesOf(arg) : v.cls # "BrokenSeq")
    /\ [][(AtIteration /\ x[i + 1].cls \in {"BrokenStr", "frozenset"})
             => (pc' = "loop" /\ x' = x /\ i' = i + 1)]_vars

\* The second element of (1, broken) raised from the loop.
C14_Witness ==
    /\ pc = "raised" /\ arg = Tuple(<<PyInt(1), BrokenSeq(2)>>)
    /\ i = 1 /\ xi_class = "BrokenSeq"
    /\ "BrokenSeq" \in sequence_types
    /\ result = Unset

-----------------------------------------------------------------------------
(* C12: concurrent registry safety.  With the lookups and adds of several  *)
(* concurrent calls interleaved in any order, no class is ever in both     *)
(* sets; a class once in a set stays in it, so after a registration has    *)
(* completed the class is in exactly one set in every later state; a       *)
(* thread whose lookup (line 44) began with the class registered finds it, *)
(* at line 44 or at line 46, and does not go on to register it; and every  *)
(* call returns the canonical key of its argument.                         *)
C12_ConcurrentRegistry ==
    /\ [](native_types \cap sequence_types = {})
    /\ \A c \in ConcClasses :
          [](c \in native_types \cup sequence_types
               => []((c \in native_types) # (c \in sequence_types)))
    /\ [][/\ native_types \subseteq native_types'
          /\ sequence_types \subseteq sequence_types']_allvars
    /\ [](\A t \in Threads :
            /\ (t_pc[t] = "l46" /\ t_known[t]) => t_cls[t] \in sequence_types
            /\ t_pc[t] \in {"l55", "l58"} => ~t_known[t]
            /\ t_pc[t] = "done" => t_res[t] = CanonicalOf(t_arg[t]))

\* Two threads race to register the same class: one has added it and the
\* other, whose lookups came before the add, is about to add it again.
C12_Witness ==
    /\ t_pc["t1"] = "l58" /\ t_cls["t1"] = "UserList"
    /\ "UserList" \in sequence_types
    /\ t_pc["t2"] = "l42" /\ t_cls["t2"] = "UserList"

=============================================================================
